---- MODULE Spec2Model ----
(***************************************************************************)
(* A model of mmath::Quaternion<T> (include/mmath/Quaternion.h).           *)
(*                                                                         *)
(* Scalars.  A value of T is modelled as an exact rational [n, d] in       *)
(* lowest terms (d > 0), so the arithmetic of the header is carried out    *)
(* without rounding; IEEE infinities and NaN are outside the value domain  *)
(* (division by zero is never drawn).  Operations whose true result is     *)
(* irrational (sqrt, and through it asin, acos, cos, sin) return the exact *)
(* rational when there is one and otherwise the value rounded down to the  *)
(* grid 1/SqrtScale.                                                       *)
(*                                                                         *)
(* Angles.  A value of T that holds radians is modelled as [a, b, k]: the  *)
(* primitive integer direction (a, b) of the angle's principal part in     *)
(* (-pi, pi] together with the number k of full turns, i.e. the angle      *)
(* atan2(b, a) + 2*pi*k.                                                   *)
(***************************************************************************)
EXTENDS Integers, Sequences, FiniteSets, TLC

VARIABLES q, p, op, lhs, arg, ret, depth, euler

vars == <<q, p, op, lhs, arg, ret, depth, euler>>

-----------------------------------------------------------------------------
(* Bounds of the model. *)

\* longest left-to-right product a * b * c * ... the client forms
MaxChain == 3

\* a product is extended only while its components stay within this magnitude
MaxMag == 130

\* grid on which an irrational square root is rounded down
SqrtScale == 100

-----------------------------------------------------------------------------
(* Integer helpers behind the scalar type. *)

IAbs(i) == IF i < 0 THEN -i ELSE i

ISign(i) == IF i < 0 THEN -1 ELSE IF i = 0 THEN 0 ELSE 1

IMin(i, j) == IF i < j THEN i ELSE j

RECURSIVE GCD(_, _)
GCD(i, j) == IF j = 0 THEN i ELSE GCD(j, i % j)

\* whether i * i may still be formed
Squarable(i) == i <= 46340

RECURSIVE ISqrtIn(_, _, _)
ISqrtIn(n, lo, hi) ==
    IF lo >= hi THEN lo
    ELSE LET mid == (lo + hi + 1) \div 2
         IN  IF mid * mid <= n THEN ISqrtIn(n, mid, hi) ELSE ISqrtIn(n, lo, mid - 1)

\* floor of the square root of n >= 0
ISqrt(n) == ISqrtIn(n, 0, IMin(n, 46340))

IsSquare(n) == LET r == ISqrt(n) IN r * r = n

-----------------------------------------------------------------------------
(* The scalar type T: exact rationals in lowest terms. *)

Rat(n, d) ==
    LET g == GCD(IAbs(n), IAbs(d))
        s == IF d < 0 THEN -1 ELSE 1
    IN  [n |-> s * (n \div g), d |-> s * (d \div g)]

Zero == [n |-> 0, d |-> 1]
One  == [n |-> 1, d |-> 1]
Two  == [n |-> 2, d |-> 1]

Int2Rat(i) == [n |-> i, d |-> 1]

RNeg(a) == [n |-> -a.n, d |-> a.d]

RAdd(a, b) ==
    IF a.d = b.d /\ a.d = 1 THEN [n |-> a.n + b.n, d |-> 1]
    ELSE LET g == GCD(a.d, b.d)
         IN  Rat(a.n * (b.d \div g) + b.n * (a.d \div g), (a.d \div g) * b.d)

RSub(a, b) == RAdd(a, RNeg(b))

RMul(a, b) ==
    LET g1 == GCD(IAbs(a.n), b.d)
        g2 == GCD(IAbs(b.n), a.d)
    IN  [n |-> (a.n \div g1) * (b.n \div g2), d |-> (a.d \div g2) * (b.d \div g1)]

\* b # 0
RDiv(a, b) ==
    RMul(a, [n |-> ISign(b.n) * b.d, d |-> IAbs(b.n)])

\* a < b, by comparing the continued-fraction expansions, so that no product
\* of a numerator and a denominator is formed
RECURSIVE RLt(_, _)
RLt(a, b) ==
    LET fa == a.n \div a.d
        fb == b.n \div b.d
        ra == a.n % a.d
        rb == b.n % b.d
    IN  IF fa # fb THEN fa < fb
        ELSE IF rb = 0 THEN FALSE
        ELSE IF ra = 0 THEN TRUE
        ELSE RLt([n |-> b.d, d |-> rb], [n |-> a.d, d |-> ra])

\* floor(a * m) for a >= 0 and m > 0, without forming a.n * m when a.d is large
FloorScaled(a, m) ==
    LET whole == a.n \div a.d
        rest  == a.n % a.d
    IN  IF Squarable(a.d)
        THEN whole * m + (rest * m) \div a.d
        ELSE whole * m + IMin(m - 1, rest \div (a.d \div m))

-----------------------------------------------------------------------------
(* <cmath> and util.h on scalars. *)

abs(v) == [n |-> IAbs(v.n), d |-> v.d]

clamp(v, lo, hi) == IF RLt(v, lo) THEN lo ELSE IF RLt(hi, v) THEN hi ELSE v

\* v >= 0: the exact root when v is the square of a rational, else the root
\* rounded down to the grid 1/SqrtScale
sqrt(v) ==
    IF IsSquare(v.n) /\ IsSquare(v.d)
    THEN [n |-> ISqrt(v.n), d |-> ISqrt(v.d)]
    ELSE Rat(ISqrt(FloorScaled(v, SqrtScale * SqrtScale)), SqrtScale)

\* v rounded toward zero to the grid 1/SqrtScale
Grid(v) == Rat(ISign(v.n) * FloorScaled(abs(v), SqrtScale), SqrtScale)

\* whether sqrt(1 - v*v) is rational (|v| <= 1)
CoRootExact(v) == Squarable(v.d) /\ IsSquare(v.d * v.d - v.n * v.n)

\* sqrt(1 - v*v) for |v| <= 1; an irrational root is taken of Grid(v)
CoRoot(v) ==
    IF CoRootExact(v)
    THEN Rat(ISqrt(v.d * v.d - v.n * v.n), v.d)
    ELSE LET g == Grid(v)
         IN  Rat(ISqrt(g.d * g.d - g.n * g.n), g.d)

-----------------------------------------------------------------------------
(* Radians. *)

\* the angle of principal direction (x, y), x and y scalars, with k full turns
Dir(x, y, k) ==
    LET g  == GCD(x.d, y.d)
        xi == x.n * (y.d \div g)
        yi == y.n * (x.d \div g)
        h  == GCD(IAbs(xi), IAbs(yi))
    IN  IF h = 0 THEN [a |-> 1, b |-> 0, k |-> k]
        ELSE [a |-> xi \div h, b |-> yi \div h, k |-> k]

\* the literal 0 stored in a T that holds radians
ZeroAngle == [a |-> 1, b |-> 0, k |-> 0]

atan2(y, x) == Dir(x, y, 0)

asin(v) == IF CoRootExact(v) THEN Dir(CoRoot(v), v, 0) ELSE Dir(CoRoot(v), Grid(v), 0)

acos(v) == IF CoRootExact(v) THEN Dir(v, CoRoot(v), 0) ELSE Dir(Grid(v), CoRoot(v), 0)

\* angle * 2.0
Twice(t) ==
    LET a2 == t.a * t.a - t.b * t.b
        b2 == 2 * t.a * t.b
        h  == GCD(IAbs(a2), IAbs(b2))
        up == (t.a < 0 /\ t.b >= 0)
        dn == (t.a <= 0 /\ t.b < 0)
    IN  [a |-> a2 \div h, b |-> b2 \div h,
         k |-> 2 * t.k + (IF up THEN 1 ELSE IF dn THEN -1 ELSE 0)]

\* angle / 2.0, kept as the angle it halves
Half(t) == [half |-> t]

\* cosine of the principal direction (a, b)
CosOf(t) ==
    LET rr == t.a * t.a + t.b * t.b
    IN  IF IsSquare(rr) THEN Rat(t.a, ISqrt(rr))
        ELSE RDiv(Int2Rat(t.a), sqrt(Int2Rat(rr)))

TurnSign(k) == IF k % 2 = 0 THEN One ELSE RNeg(One)

cos(h) ==
    LET t == h.half
    IN  RMul(TurnSign(t.k), sqrt(RDiv(RAdd(One, clamp(CosOf(t), RNeg(One), One)), Two)))

sin(h) ==
    LET t == h.half
        s == IF t.b < 0 THEN RNeg(One) ELSE One
    IN  RMul(RMul(TurnSign(t.k), s),
             sqrt(RDiv(RSub(One, clamp(CosOf(t), RNeg(One), One)), Two)))

-----------------------------------------------------------------------------
(* Vector<3, T> and Quaternion<T>. *)

Vector3(x, y, z) == [x |-> x, y |-> y, z |-> z]

\* Quaternion(T w, T x, T y, T z)
Quaternion(w, x, y, z) == [w |-> w, x |-> x, y |-> y, z |-> z]

\* faulty variant: the 1 initialises the last field instead of w
QuaternionDefault_LastField == Quaternion(Zero, Zero, Zero, One)

\* Quaternion()
QuaternionDefault == Quaternion(One, Zero, Zero, Zero)

\* Quaternion(const Quaternion &v)
QuaternionCopy(v) == Quaternion(v.w, v.x, v.y, v.z)

\* faulty variant: y is initialised from axis.x
QuaternionAxisAngle_WrongAxis(axis, angle) ==
    Quaternion(cos(Half(angle)),
               RMul(axis.x, sin(Half(angle))),
               RMul(axis.x, sin(Half(angle))),
               RMul(axis.z, sin(Half(angle))))

\* Quaternion(const Vector<3, T> axis, const T angle)
QuaternionAxisAngle(axis, angle) ==
    Quaternion(cos(Half(angle)),
               RMul(axis.x, sin(Half(angle))),
               RMul(axis.y, sin(Half(angle))),
               RMul(axis.z, sin(Half(angle))))

\* faulty variant: the last term of ret.x is added instead of subtracted
Mul_SymmetricX(q1, q2) ==
    [w |-> RSub(RSub(RSub(RMul(q1.w, q2.w), RMul(q1.x, q2.x)), RMul(q1.y, q2.y)), RMul(q1.z, q2.z)),
     x |-> RAdd(RAdd(RAdd(RMul(q1.x, q2.w), RMul(q1.w, q2.x)), RMul(q1.y, q2.z)), RMul(q1.z, q2.y)),
     y |-> RAdd(RAdd(RSub(RMul(q1.w, q2.y), RMul(q1.x, q2.z)), RMul(q1.y, q2.w)), RMul(q1.z, q2.x)),
     z |-> RAdd(RSub(RAdd(RMul(q1.w, q2.z), RMul(q1.x, q2.y)), RMul(q1.y, q2.x)), RMul(q1.z, q2.w))]

\* faulty variant: the x term of ret.w is added instead of subtracted
Mul_SignW(q1, q2) ==
    [w |-> RSub(RSub(RAdd(RMul(q1.w, q2.w), RMul(q1.x, q2.x)), RMul(q1.y, q2.y)), RMul(q1.z, q2.z)),
     x |-> RSub(RAdd(RAdd(RMul(q1.x, q2.w), RMul(q1.w, q2.x)), RMul(q1.y, q2.z)), RMul(q1.z, q2.y)),
     y |-> RAdd(RAdd(RSub(RMul(q1.w, q2.y), RMul(q1.x, q2.z)), RMul(q1.y, q2.w)), RMul(q1.z, q2.x)),
     z |-> RAdd(RSub(RAdd(RMul(q1.w, q2.z), RMul(q1.x, q2.y)), RMul(q1.y, q2.x)), RMul(q1.z, q2.w))]

\* operator*(q1, q2)
Mul(q1, q2) ==
    [w |-> RSub(RSub(RSub(RMul(q1.w, q2.w), RMul(q1.x, q2.x)), RMul(q1.y, q2.y)), RMul(q1.z, q2.z)),
     x |-> RSub(RAdd(RAdd(RMul(q1.x, q2.w), RMul(q1.w, q2.x)), RMul(q1.y, q2.z)), RMul(q1.z, q2.y)),
     y |-> RAdd(RAdd(RSub(RMul(q1.w, q2.y), RMul(q1.x, q2.z)), RMul(q1.y, q2.w)), RMul(q1.z, q2.x)),
     z |-> RAdd(RSub(RAdd(RMul(q1.w, q2.z), RMul(q1.x, q2.y)), RMul(q1.y, q2.x)), RMul(q1.z, q2.w))]

\* faulty variant: the last field is passed undivided
Div_LastField(q1, scalar) ==
    Quaternion(RDiv(q1.w, scalar), RDiv(q1.x, scalar), RDiv(q1.y, scalar), q1.z)

\* operator/(q, scalar), scalar # 0
Div(q1, scalar) ==
    Quaternion(RDiv(q1.w, scalar), RDiv(q1.x, scalar), RDiv(q1.y, scalar), RDiv(q1.z, scalar))

\* Quaternion::Dot
Dot(self, q2) ==
    LET qt == Mul(self, q2)
    IN  RAdd(RAdd(RAdd(qt.w, qt.x), qt.y), qt.z)

\* faulty variant: the clamp is left out
AcosArg_NoClamp(self, q2) == abs(Dot(self, q2))

\* the argument Quaternion::Angle hands to acos
AcosArg(self, q2) == abs(clamp(Dot(self, q2), RNeg(One), One))

\* Quaternion::Angle
Angle(self, q2) == Twice(acos(AcosArg(self, q2)))

\* the radicand of Quaternion::norm
NormSq(self) ==
    RAdd(RAdd(RAdd(RMul(self.w, self.w), RMul(self.x, self.x)),
              RMul(self.y, self.y)), RMul(self.z, self.z))

\* Quaternion::norm
norm(self) == sqrt(NormSq(self))

\* faulty variant: the second term of y is added instead of subtracted
FromEulerXYZ_SignY(self, e) ==
    LET c1 == cos(Half(e.x))
        c2 == cos(Half(e.y))
        c3 == cos(Half(e.z))
        s1 == sin(Half(e.x))
        s2 == sin(Half(e.y))
        s3 == sin(Half(e.z))
    IN  [w |-> RSub(RMul(RMul(c1, c2), c3), RMul(RMul(s1, s2), s3)),
         x |-> RAdd(RMul(RMul(s1, c2), c3), RMul(RMul(c1, s2), s3)),
         y |-> RAdd(RMul(RMul(c1, s2), c3), RMul(RMul(s1, c2), s3)),
         z |-> RAdd(RMul(RMul(c1, c2), s3), RMul(RMul(s1, s2), c3))]

\* faulty variant: w is not assigned and keeps what the object held
FromEulerXYZ_KeepW(self, e) ==
    LET c1 == cos(Half(e.x))
        c2 == cos(Half(e.y))
        c3 == cos(Half(e.z))
        s1 == sin(Half(e.x))
        s2 == sin(Half(e.y))
        s3 == sin(Half(e.z))
    IN  [w |-> self.w,
         x |-> RAdd(RMul(RMul(s1, c2), c3), RMul(RMul(c1, s2), s3)),
         y |-> RSub(RMul(RMul(c1, s2), c3), RMul(RMul(s1, c2), s3)),
         z |-> RAdd(RMul(RMul(c1, c2), s3), RMul(RMul(s1, s2), c3))]

\* the fields Quaternion::FromEulerXYZ leaves in an object that held self
FromEulerXYZ(self, e) ==
    LET c1 == cos(Half(e.x))
        c2 == cos(Half(e.y))
        c3 == cos(Half(e.z))
        s1 == sin(Half(e.x))
        s2 == sin(Half(e.y))
        s3 == sin(Half(e.z))
    IN  [w |-> RSub(RMul(RMul(c1, c2), c3), RMul(RMul(s1, s2), s3)),
         x |-> RAdd(RMul(RMul(s1, c2), c3), RMul(RMul(c1, s2), s3)),
         y |-> RSub(RMul(RMul(c1, s2), c3), RMul(RMul(s1, c2), s3)),
         z |-> RAdd(RMul(RMul(c1, c2), s3), RMul(RMul(s1, s2), c3))]

\* the threshold 0.9999999 of ToEulerXYZ
GimbalNum == 9999999
GimbalDen == 10000000
GimbalThreshold == [n |-> GimbalNum, d |-> GimbalDen]

\* the rotation-matrix entries Quaternion::ToEulerXYZ derives
Matrix(self) ==
    LET x2 == RAdd(self.x, self.x)
        y2 == RAdd(self.y, self.y)
        z2 == RAdd(self.z, self.z)
        xx == RMul(self.x, x2)
        xy == RMul(self.x, y2)
        xz == RMul(self.x, z2)
        yy == RMul(self.y, y2)
        yz == RMul(self.y, z2)
        zz == RMul(self.z, z2)
        wx == RMul(self.w, x2)
        wy == RMul(self.w, y2)
        wz == RMul(self.w, z2)
        sx == One
        sy == One
        sz == One
    IN  [m11 |-> RMul(RSub(One, RAdd(yy, zz)), sx),
         m12 |-> RMul(RSub(xy, wz), sy),
         m13 |-> RMul(RAdd(xz, wy), sz),
         m22 |-> RMul(RSub(One, RAdd(xx, zz)), sy),
         m23 |-> RMul(RSub(yz, wx), sz),
         m32 |-> RMul(RAdd(yz, wx), sy),
         m33 |-> RMul(RSub(One, RAdd(xx, yy)), sz)]

\* faulty variant: m13 is compared without abs
NonDegenerate_NoAbs(m13) == RLt(m13, GimbalThreshold)

\* the branch condition of ToEulerXYZ: true in the general case
NonDegenerate(m13) == RLt(abs(m13), GimbalThreshold)

\* Quaternion::ToEulerXYZ
ToEulerXYZ(self) ==
    LET m  == Matrix(self)
        ey == asin(clamp(m.m13, RNeg(One), One))
    IN  IF NonDegenerate(m.m13)
        THEN Vector3(atan2(RNeg(m.m23), m.m33), ey, atan2(RNeg(m.m12), m.m11))
        ELSE Vector3(atan2(m.m32, m.m22), ey, ZeroAngle)

-----------------------------------------------------------------------------
(* The values the client code supplies. *)

Q4(w, x, y, z, d) == Quaternion(Rat(w, d), Rat(x, d), Rat(y, d), Rat(z, d))

\* arguments of the four-scalar constructor
Generic ==
    { Q4(1, 2, 3, 4, 1), Q4(2, 4, 6, 8, 1), Q4(1, -2, 1, 3, 1), Q4(0, 1, 0, 0, 1),
      Q4(-1, 0, 0, 0, 1), Q4(2, 0, 0, 0, 1), Q4(1, 2, 0, 0, 1), Q4(1, 1, 1, 1, 2),
      Q4(3, 4, 0, 0, 5), Q4(0, 3, 4, 0, 5) }

\* quaternions (w, 1, y, 0), whose m13 is 2wy, on both sides of the threshold
NearGimbal ==
    { Quaternion(Rat(s * 999, 1000), One, Rat(1001, 2000), Zero) : s \in {-1, 1} } \cup
    { Quaternion(Rat(s * 2151, 5000), One, Rat(4649, 4000), Zero) : s \in {-1, 1} } \cup
    { Quaternion(Rat(s * 4095, 4096), One, Rat(4097, 8192), Zero) : s \in {-1, 1} } \cup
    { Quaternion(Rat(s, 2), One, One, Zero) : s \in {-1, 1} } \cup
    { Quaternion(One, One, One, Zero) }

Ang(a, b, k) == [a |-> a, b |-> b, k |-> k]

Axes == { Vector3(One, Zero, Zero), Vector3(Zero, One, Zero), Vector3(Zero, Zero, One) }

AxisAngles == { Ang(7, 24, 0), Ang(0, 1, 0) }

\* the objects the constructors build
Constructed ==
    {QuaternionDefault} \cup Generic \cup NearGimbal \cup
    { QuaternionAxisAngle(ax, an) : ax \in Axes, an \in AxisAngles }

\* the objects built to be passed as the second operand
Arguments ==
    { QuaternionDefault, Q4(1, 2, 3, 4, 1), Q4(1, -2, 1, 3, 1), Q4(0, 1, 0, 0, 1),
      Q4(1, 1, 1, 1, 2), Q4(3, 4, 0, 0, 5),
      QuaternionAxisAngle(Vector3(Zero, Zero, One), Ang(7, 24, 0)) }

Rolls == { ZeroAngle, Ang(7, 24, 0), Ang(-7, -24, 0), Ang(7, 24, 1) }

Pitches == { ZeroAngle, Ang(7, 24, 0), Ang(7, -24, 0), Ang(41, 840, 0), Ang(-7, 24, 0) }

Yaws == { ZeroAngle, Ang(7, -24, 0), Ang(-7, 24, -1) }

Eulers == { Vector3(ex, ey, ez) : ex \in Rolls, ey \in Pitches, ez \in Yaws }

\* divisors of operator/
Scalars == { Two, Rat(1, 2), Rat(-5, 1) }

None == <<>>

-----------------------------------------------------------------------------
(* The client: two objects q and p, and the calls made on them.  op names  *)
(* the call whose result the client holds ("none": no result is held), lhs *)
(* and arg are that call's receiver (or left operand) and argument, ret is *)
(* the value it returned, depth the number of factors of a product, and    *)
(* euler records the Euler angles q was last written from (<<>>: never).   *)

Init ==
    /\ q \in Constructed
    /\ p \in { QuaternionCopy(a) : a \in Arguments }
    /\ op = "none"
    /\ lhs = None
    /\ arg = None
    /\ ret = None
    /\ depth = 0
    /\ euler = <<>>

\* q.ToEulerXYZ()
CallToEulerXYZ ==
    /\ op = "none"
    /\ op' = "ToEulerXYZ"
    /\ lhs' = q
    /\ arg' = None
    /\ ret' = ToEulerXYZ(q)
    /\ depth' = 0
    /\ UNCHANGED <<q, p, euler>>

\* q.FromEulerXYZ(e)
CallFromEulerXYZ ==
    /\ op = "none"
    /\ \E e \in Eulers :
        /\ op' = "FromEulerXYZ"
        /\ lhs' = q
        /\ arg' = e
        /\ q' = FromEulerXYZ(q, e)
        /\ ret' = None
        /\ depth' = 0
        /\ euler' = <<e>>
        /\ UNCHANGED p

\* q.Dot(b), b one of the two objects
CallDot ==
    /\ op = "none"
    /\ \E b \in {q, p} :
        /\ op' = "Dot"
        /\ lhs' = q
        /\ arg' = b
        /\ ret' = Dot(q, b)
        /\ depth' = 0
        /\ UNCHANGED <<q, p, euler>>

\* q.Angle(b)
CallAngle ==
    /\ op = "none"
    /\ \E b \in {q, p} :
        /\ op' = "Angle"
        /\ lhs' = q
        /\ arg' = b
        /\ ret' = Angle(q, b)
        /\ depth' = 0
        /\ UNCHANGED <<q, p, euler>>

\* q.norm()
CallNorm ==
    /\ op = "none"
    /\ op' = "norm"
    /\ lhs' = q
    /\ arg' = None
    /\ ret' = norm(q)
    /\ depth' = 0
    /\ UNCHANGED <<q, p, euler>>

\* a * b
CallMul ==
    /\ op = "none"
    /\ \E a \in {q, p}, b \in {q, p} :
        /\ op' = "operator*"
        /\ lhs' = a
        /\ arg' = b
        /\ ret' = Mul(a, b)
        /\ depth' = 2
        /\ UNCHANGED <<q, p, euler>>

Small(v) == IAbs(v.n) <= MaxMag /\ v.d <= MaxMag

SmallQ(v) == Small(v.w) /\ Small(v.x) /\ Small(v.y) /\ Small(v.z)

\* (... * a) * b: the product just returned is multiplied on
CallMulChain ==
    /\ op = "operator*"
    /\ depth < MaxChain
    /\ SmallQ(ret)
    /\ \E b \in {q, p} :
        /\ SmallQ(b)
        /\ op' = "operator*"
        /\ lhs' = ret
        /\ arg' = b
        /\ ret' = Mul(ret, b)
        /\ depth' = depth + 1
        /\ UNCHANGED <<q, p, euler>>

\* q / s
CallDiv ==
    /\ op = "none"
    /\ \E s \in Scalars :
        /\ op' = "operator/"
        /\ lhs' = q
        /\ arg' = s
        /\ ret' = Div(q, s)
        /\ depth' = 0
        /\ UNCHANGED <<q, p, euler>>

\* the returned temporary goes out of scope
Drop ==
    /\ op # "none"
    /\ op' = "none"
    /\ lhs' = None
    /\ arg' = None
    /\ ret' = None
    /\ depth' = 0
    /\ UNCHANGED <<q, p, euler>>

Next ==
    \/ CallToEulerXYZ
    \/ CallFromEulerXYZ
    \/ CallDot
    \/ CallAngle
    \/ CallNorm
    \/ CallMul
    \/ CallMulChain
    \/ CallDiv
    \/ Drop

Spec == Init /\ [][Next]_vars

-----------------------------------------------------------------------------
(* Properties. *)

MinusOne == RNeg(One)

UnitNorm(v) == NormSq(v) = One

\* the cross product of the vector parts (x, y, z) of u and v is zero
Parallel(u, v) ==
    /\ RSub(RMul(u.y, v.z), RMul(u.z, v.y)) = Zero
    /\ RSub(RMul(u.z, v.x), RMul(u.x, v.z)) = Zero
    /\ RSub(RMul(u.x, v.y), RMul(u.y, v.x)) = Zero

\* C1: for every unit-norm quaternion q, q.Angle(q) is 0, the argument of
\* acos being exactly 1.
C1_AngleSelfZero ==
    (op = "Angle" /\ arg = lhs /\ UnitNorm(lhs)) =>
        (AcosArg(lhs, arg) = One /\ ret = ZeroAngle)

\* C2: the default-constructed quaternion is a two-sided identity of
\* operator*: Quaternion() * v and v * Quaternion() equal v in all four
\* components, for the objects held and for every product formed.
C2_DefaultIsIdentity ==
    /\ op = "none" =>
        /\ Mul(QuaternionDefault, q) = q /\ Mul(q, QuaternionDefault) = q
        /\ Mul(QuaternionDefault, p) = p /\ Mul(p, QuaternionDefault) = p
    /\ op = "operator*" =>
        /\ lhs = QuaternionDefault => ret = arg
        /\ arg = QuaternionDefault => ret = lhs

C2_Witness ==
    /\ op = "operator*"
    /\ arg = QuaternionDefault
    /\ lhs = Q4(1, -2, 1, 3, 1)
    /\ ret = lhs

\* C3: ToEulerXYZ selects its branch by |m13| alone, m13 = 2(xz + wy): at
\* |m13| >= 0.9999999 ez is exactly 0 and ex = atan2(m32, m22); below it
\* ex = atan2(-m23, m33) and ez = atan2(-m12, m11); in both branches
\* ey = asin(clamp(m13, -1, 1)).
C3_BranchByM13 ==
    op = "ToEulerXYZ" =>
        LET m13 == RMul(Two, RAdd(RMul(lhs.x, lhs.z), RMul(lhs.w, lhs.y)))
            m   == Matrix(lhs)
        IN  /\ m.m13 = m13
            /\ ret.y = asin(clamp(m13, MinusOne, One))
            /\ IF RLt(abs(m13), GimbalThreshold)
               THEN /\ ret.x = atan2(RNeg(m.m23), m.m33)
                    /\ ret.z = atan2(RNeg(m.m12), m.m11)
               ELSE /\ ret.x = atan2(m.m32, m.m22)
                    /\ ret.z = ZeroAngle

\* a gimbal-lock result for an m13 strictly between the threshold and 1,
\* where the general formula would have given another ez
C3_Witness ==
    /\ op = "ToEulerXYZ"
    /\ LET m == Matrix(lhs)
       IN  /\ RLt(GimbalThreshold, m.m13)
           /\ RLt(m.m13, One)
           /\ atan2(RNeg(m.m12), m.m11) # ZeroAngle
           /\ ret.z = ZeroAngle
           /\ ret.x = atan2(m.m32, m.m22)

\* sin(84 degrees) squared, to five places
Sin84Sq == Rat(98907, 100000)

\* |t| < about 84 degrees
Within84(t) ==
    /\ t.k = 0
    /\ t.a > 0
    /\ RLt(Rat(t.b * t.b, t.a * t.a + t.b * t.b), Sin84Sq)

\* t lies strictly between -pi and pi
Principal(t) == t.k = 0 /\ ~(t.a < 0 /\ t.b = 0)

\* C4 as stated: whenever the pitch e.y is within about 84 degrees,
\* FromEulerXYZ(e) followed by ToEulerXYZ() returns e.
C4_RoundTripAnyRollYaw ==
    (op = "ToEulerXYZ" /\ euler # <<>> /\ Within84(euler[1].y)) =>
        ret = euler[1]

\* C4 amended: whenever the pitch e.y is within about 84 degrees and the
\* roll e.x and the yaw e.z lie strictly between -pi and pi,
\* FromEulerXYZ(e) followed by ToEulerXYZ() returns e.
C4_RoundTripPrincipal ==
    (op = "ToEulerXYZ" /\ euler # <<>> /\ Within84(euler[1].y)
        /\ Principal(euler[1].x) /\ Principal(euler[1].z)) =>
        ret = euler[1]

C4_Witness ==
    /\ op = "ToEulerXYZ"
    /\ euler = << Vector3(Ang(-7, -24, 0), Ang(7, -24, 0), Ang(7, -24, 0)) >>
    /\ lhs = FromEulerXYZ(QuaternionDefault, euler[1])
    /\ ret = euler[1]

\* C5: operator* does not commute: a * b differs from b * a for non-identity
\* a and b, except exactly when their vector parts are parallel (zero cross
\* product), and then a * b equals b * a.
C5_CommutesIffParallel ==
    (op = "operator*" /\ lhs # QuaternionDefault /\ arg # QuaternionDefault) =>
        (ret = Mul(arg, lhs) <=> Parallel(lhs, arg))

C5_Witness ==
    /\ op = "operator*"
    /\ lhs = Q4(1, 2, 3, 4, 1)
    /\ arg = Q4(1, -2, 1, 3, 1)
    /\ ~Parallel(lhs, arg)
    /\ ret # Mul(arg, lhs)

\* C6: the fields of a quaternion change only at a FromEulerXYZ call: every
\* other operation leaves the receiver and the argument object unchanged, and
\* FromEulerXYZ overwrites all four fields with values that depend on e alone
\* (the same whatever the object held before).
C6_OnlyFromEulerWrites ==
    [][ /\ p' = p
        /\ op' # "FromEulerXYZ" => q' = q
        /\ op' = "FromEulerXYZ" =>
            /\ q' = FromEulerXYZ(QuaternionDefault, arg')
            /\ q' = FromEulerXYZ(Q4(2, 4, 6, 8, 1), arg') ]_vars

\* FromEulerXYZ has overwritten an object whose four fields were all different
\* from what they are now
C6_Witness ==
    /\ op = "FromEulerXYZ"
    /\ lhs = Q4(1, 2, 3, 4, 1)
    /\ lhs.w # q.w /\ lhs.x # q.x /\ lhs.y # q.y /\ lhs.z # q.z
    /\ q = FromEulerXYZ(QuaternionDefault, arg)

\* C7: the value Angle hands to acos lies in [0, 1] whatever Dot returns, and
\* equals clamp(|Dot(q)|, -1, 1) although abs is applied after the clamp.
C7_AcosArgInDomain ==
    op = "Angle" =>
        LET d == Dot(lhs, arg)
            a == AcosArg(lhs, arg)
        IN  /\ ~RLt(a, Zero)
            /\ ~RLt(One, a)
            /\ a = clamp(abs(d), MinusOne, One)
            /\ ret = Twice(acos(a))

\* Dot is below -1, so the clamp yields -1 and abs turns it into 1
C7_Witness ==
    /\ op = "Angle"
    /\ RLt(Dot(lhs, arg), MinusOne)
    /\ AcosArg(lhs, arg) = One
    /\ ret = ZeroAngle

IsInt(v) == v.d = 1

\* C8: operator/ divides each of the four fields by the scalar and nothing
\* else: each component of q / s times s gives back that component of q,
\* integral components that are multiples of an integral s stay integral,
\* and Quaternion(2,4,6,8) / 2 is Quaternion(1,2,3,4).
C8_DivComponentwise ==
    op = "operator/" =>
        /\ ret = Quaternion(RDiv(lhs.w, arg), RDiv(lhs.x, arg),
                            RDiv(lhs.y, arg), RDiv(lhs.z, arg))
        /\ RMul(ret.w, arg) = lhs.w /\ RMul(ret.x, arg) = lhs.x
        /\ RMul(ret.y, arg) = lhs.y /\ RMul(ret.z, arg) = lhs.z
        /\ (/\ IsInt(arg)
            /\ \A c \in {lhs.w, lhs.x, lhs.y, lhs.z} : IsInt(c) /\ c.n % IAbs(arg.n) = 0)
           => \A c \in {ret.w, ret.x, ret.y, ret.z} : IsInt(c)
        /\ (lhs = Q4(2, 4, 6, 8, 1) /\ arg = Two) => ret = Q4(1, 2, 3, 4, 1)

C8_Witness ==
    /\ op = "operator/"
    /\ lhs = Q4(2, 4, 6, 8, 1)
    /\ arg = Two
    /\ ret = Q4(1, 2, 3, 4, 1)

AxisX == Vector3(One, Zero, Zero)
AxisY == Vector3(Zero, One, Zero)
AxisZ == Vector3(Zero, Zero, One)

\* C9: the fields FromEulerXYZ(e) writes equal the product
\* Quaternion((1,0,0), ex) * Quaternion((0,1,0), ey) * Quaternion((0,0,1), ez)
\* taken left to right.
C9_FromEulerIsAxisProduct ==
    op = "FromEulerXYZ" =>
        q = Mul(Mul(QuaternionAxisAngle(AxisX, arg.x), QuaternionAxisAngle(AxisY, arg.y)),
                QuaternionAxisAngle(AxisZ, arg.z))

\* all three angles are non-zero and all four fields written are non-zero
C9_Witness ==
    /\ op = "FromEulerXYZ"
    /\ arg = Vector3(Ang(7, 24, 0), Ang(7, -24, 0), Ang(7, -24, 0))
    /\ q.w # Zero /\ q.x # Zero /\ q.y # Zero /\ q.z # Zero
    /\ q = Mul(Mul(QuaternionAxisAngle(AxisX, arg.x), QuaternionAxisAngle(AxisY, arg.y)),
               QuaternionAxisAngle(AxisZ, arg.z))

\* C10: the squared norm is multiplicative under operator*, so a product of
\* unit-norm quaternions, however long the chain, has norm() = 1 (checked for
\* operands whose components are within MaxMag).
C10_NormMultiplicative ==
    (op = "operator*" /\ SmallQ(lhs) /\ SmallQ(arg)) =>
        /\ NormSq(ret) = RMul(NormSq(lhs), NormSq(arg))
        /\ (UnitNorm(lhs) /\ UnitNorm(arg)) => norm(ret) = One

\* a three-factor product of unit quaternions, none of them the identity
C10_Witness ==
    /\ op = "operator*"
    /\ depth = 3
    /\ SmallQ(lhs) /\ SmallQ(arg)
    /\ UnitNorm(lhs) /\ UnitNorm(arg)
    /\ lhs # QuaternionDefault /\ arg # QuaternionDefault
    /\ ~Parallel(lhs, arg)
    /\ norm(ret) = One

====
